---- MODULE Spec2Model ----
(***************************************************************************)
(* Model of chat_exporter/construct/message.py: the transcript assembler   *)
(* gather_messages and the per-message builder MessageConstruct.           *)
(*                                                                         *)
(* Python values are modelled as records tagged by a field k, so that one  *)
(* attribute can hold None, a library object, or a markup string, as the   *)
(* code makes it do.  Message objects live in a heap (obj) because the     *)
(* caller's list, message_dict and previous_message alias the same         *)
(* objects and the builder writes to them.                                 *)
(***************************************************************************)
EXTENDS Integers, Sequences, FiniteSets, TLC

(* ----------------------------- bounds ---------------------------------- *)

\* longest caller-supplied message list of the free-form family
MaxLen == 2

(* --------------------------- program constants ------------------------- *)

\* timedelta(minutes=4) of the divider check, in seconds
FourMinutes == 240

(* ----------------------------- Python values --------------------------- *)

None == [k |-> "None"]

Str(s) == [k |-> "str", s |-> s]

\* Python truthiness of the values the attributes can hold
Truthy(v) == v # None /\ v # Str("")

\* a datetime: t in seconds, tzinfo set or not
DateTime(t, aware) == [k |-> "datetime", t |-> t, tzinfo |-> aware]

MessageReference(mid) == [k |-> "MessageReference", message_id |-> mid, channel_id |-> "parent_channel"]

MessageInteraction(user) == [k |-> "MessageInteraction", user |-> user, name |-> "cmd"]

Snowflake == [k |-> "Snowflake"]

Users == {"A", "B"}

\* the member named by a RECIPIENT_ADD / RECIPIENT_REMOVE notice
Target == "T"

\* id of a message that is in no transcript
RemoteId == MaxLen + 1

Times == {0, FourMinutes, FourMinutes + 1}

NoticeTypes == {"CHANNEL_PINNED_MESSAGE", "THREAD_CREATED", "RECIPIENT_REMOVE", "RECIPIENT_ADD"}

\* type tags that construct_message sends to build_message
OtherTypes == {"DEFAULT", "REPLY", "APPLICATION_COMMAND"}

(* ----------------------------- input messages -------------------------- *)

Msg(id, author, type, t, content, ref, inter, hook, att, edited, mentions) ==
    [id |-> id, author |-> author, type |-> type,
     created_at |-> DateTime(t, TRUE), edited_timestamp |-> edited,
     content |-> content, message_reference |-> ref, interaction |-> inter,
     webhook_id |-> hook, embeds |-> 0, attachments |-> att, components |-> 0,
     reactions |-> 0, mention_ids |-> mentions]

Plain(id) == Msg(id, "A", "DEFAULT", 0, Str("hi"), None, None, None, 0, None, <<>>)

\* ids a reply-reference can name: a message of the list or a remote one
RefIds(id) == ((1..MaxLen) \cup {RemoteId}) \ {id}

\* realistic message kinds, each differing from Plain in one respect
Shapes(id) ==
    {Plain(id),
     [Plain(id) EXCEPT !.author = "B"],
     [Plain(id) EXCEPT !.created_at = DateTime(FourMinutes, TRUE)],
     [Plain(id) EXCEPT !.created_at = DateTime(FourMinutes + 1, TRUE)],
     [Plain(id) EXCEPT !.interaction = MessageInteraction("B"), !.type = "APPLICATION_COMMAND"],
     [Plain(id) EXCEPT !.webhook_id = Snowflake],
     [Plain(id) EXCEPT !.content = Str("a<b"), !.edited_timestamp = DateTime(1, TRUE)],
     [Plain(id) EXCEPT !.content = Str(""), !.attachments = 1],
     [Plain(id) EXCEPT !.type = "CHANNEL_PINNED_MESSAGE", !.content = Str(""),
                       !.message_reference = MessageReference(RemoteId)],
     [Plain(id) EXCEPT !.type = "THREAD_CREATED", !.content = Str("thread")],
     [Plain(id) EXCEPT !.type = "RECIPIENT_ADD", !.content = Str(""), !.mention_ids = <<Target>>],
     [Plain(id) EXCEPT !.type = "RECIPIENT_REMOVE", !.content = Str(""), !.mention_ids = <<Target>>]}
    \cup {[Plain(id) EXCEPT !.type = "REPLY", !.message_reference = MessageReference(r)] : r \in RefIds(id)}

\* every combination of the inputs of the divider check, for a second message
Combos(id) ==
    {Msg(id, a, ty, t, Str("hi"), ref, inter, hook, 0, None, <<>>) :
        a \in Users, ty \in {"DEFAULT", "REPLY"}, t \in Times,
        ref \in {None, MessageReference(1), MessageReference(RemoteId)},
        inter \in {None, MessageInteraction("B")},
        hook \in {None, Snowflake}}

\* messages a thread's parent channel can return for the thread's first message
ParentShapes(id) ==
    {[Plain(id) EXCEPT !.author = "B"],
     [Plain(id) EXCEPT !.author = "B", !.type = "REPLY", !.message_reference = MessageReference(RemoteId)],
     [Plain(id) EXCEPT !.author = "B", !.type = "APPLICATION_COMMAND", !.interaction = MessageInteraction("A")]}

\* messages a channel can return for a referenced id that is not in the list
RemoteShapes(id) ==
    {[Plain(id) EXCEPT !.author = "B"],
     [Plain(id) EXCEPT !.author = "B", !.content = Str(""), !.attachments = 1],
     [Plain(id) EXCEPT !.author = "B", !.embeds = 1],
     [Plain(id) EXCEPT !.author = "B", !.content = Str(""), !.type = "APPLICATION_COMMAND",
                       !.interaction = MessageInteraction("A")]}

\* the caller's lists: free-form lists up to MaxLen, and pairs whose second
\* message ranges over every combination of the divider inputs
FreeLists == UNION {{s \in [1..n -> UNION {Shapes(j) : j \in 1..n}] : \A j \in 1..n : s[j] \in Shapes(j)} : n \in 0..MaxLen}

PairLists == {<<m1, m2>> : m1 \in Shapes(1), m2 \in Combos(2)}

\* creation times of a short conversation: half a minute and a minute apart,
\* and one more than four minutes after the others
ExampleTimes == {0, 30, 60, 60 + FourMinutes + 1}

\* conversations of three plain messages, in any order of authors and times
ExampleLists ==
    {<<[Plain(1) EXCEPT !.author = a1, !.created_at = DateTime(t1, TRUE)],
       [Plain(2) EXCEPT !.author = a2, !.created_at = DateTime(t2, TRUE)],
       [Plain(3) EXCEPT !.author = a3, !.created_at = DateTime(t3, TRUE)]>> :
        a1 \in Users, a2 \in Users, a3 \in Users,
        t1 \in ExampleTimes, t2 \in ExampleTimes, t3 \in ExampleTimes}

\* a message whose creation and edit times carry a tzinfo or not
ClockShapes(id, type, ref) ==
    {[Plain(id) EXCEPT !.type = type, !.message_reference = ref,
                       !.created_at = DateTime(0, aware), !.edited_timestamp = edited] :
        aware \in BOOLEAN, edited \in {None, DateTime(1, TRUE), DateTime(1, FALSE)}}

\* one such message, or one and a reply to it
ClockLists ==
    {<<m1>> : m1 \in ClockShapes(1, "DEFAULT", None)}
    \cup {<<m1, m2>> : m1 \in ClockShapes(1, "DEFAULT", None),
                       m2 \in ClockShapes(2, "REPLY", MessageReference(1))}

\* an edited or unedited message with or without text
EditedLists ==
    {<<[Plain(1) EXCEPT !.content = content, !.attachments = 1, !.edited_timestamp = edited]>> :
        content \in {Str(""), Str("hi")}, edited \in {None, DateTime(1, TRUE)}}

\* messages a reply can quote: with or without text, interaction, attachment, embed
QuotedShapes(id) ==
    {[Plain(id) EXCEPT !.content = content, !.interaction = inter,
                       !.type = IF inter = None THEN "DEFAULT" ELSE "APPLICATION_COMMAND",
                       !.attachments = att, !.embeds = emb] :
        content \in {Str(""), Str("hi")}, inter \in {None, MessageInteraction("B")},
        att \in {0, 1}, emb \in {0, 1}}

\* a quoted message and the reply to it, the reply after or before it
QuotedLists ==
    {<<m, [Plain(2) EXCEPT !.type = "REPLY", !.message_reference = MessageReference(1)]>> :
        m \in QuotedShapes(1)}
    \cup {<<[Plain(1) EXCEPT !.type = "REPLY", !.message_reference = MessageReference(2)], m>> :
        m \in QuotedShapes(2)}

InputLists == FreeLists \cup PairLists \cup ExampleLists \cup ClockLists \cup EditedLists \cup QuotedLists

(* ------------------------------- state --------------------------------- *)

VARIABLES
    input,             \* the list as the caller supplied it (never written)
    obj,               \* heap of Message objects; addresses 1..Len(input) are the caller's
    messages,          \* the caller's list: addresses into obj
    channel_thread,    \* "thread" in str(messages[0].channel.type)
    message_dict,      \* gather_messages: message id -> address
    pc,                \* position of the coroutine
    i,                 \* index of the message the for loop is at
    previous_message,  \* gather_messages: None or Ref(address)
    message_html,      \* gather_messages: fragments emitted so far
    meta_data,         \* gather_messages: author id -> aggregate
    mc,                \* the MessageConstruct in flight
    ret,               \* what the caller got: None, a return value or an exception
    parent,            \* the message fetched for a thread's first message, or None
    ref_fetches,       \* per message: outcomes of build_reference's channel.fetch_message calls
    member_fetches,    \* per message: outcomes of build_remove's / build_add's fetch_member calls
    channel_fetches,   \* guild.fetch_channel calls
    checked,           \* messages for which _generate_message_divider_check ran
    frags,             \* content_html of every finished construct_message
    pipeline,          \* per message: the build_* pipelines construct_message ran
    resolver,          \* the author resolver being run on its own, or None
    guild_member,      \* what the guild holds for the author the resolver is asked about
    member,            \* the resolver's local member: None or a Member, once fetched
    run,               \* which call of gather_messages on this list is running: 1 or 2
    first              \* what the first call returned and was answered, once a second one began

vars == <<input, obj, messages, channel_thread, message_dict, pc, i, previous_message,
          message_html, meta_data, mc, ret, parent, ref_fetches, member_fetches,
          channel_fetches, checked, frags, pipeline, resolver, guild_member, member,
          run, first>>

\* the variables of a run of an author resolver on its own
resolver_vars == <<resolver, guild_member, member>>

\* the variables that tell a second call on the same list from the first
retry_vars == <<run, first>>

Ref(a) == [k |-> "Message", at |-> a]

NoConstruct == [k |-> "None"]

Init ==
    /\ input \in InputLists
    /\ obj = input
    /\ messages = [j \in 1..Len(input) |-> j]
    /\ channel_thread \in BOOLEAN
    /\ message_dict = [u \in {} |-> 0]
    /\ pc = "gather"
    /\ i = 0
    /\ previous_message = None
    /\ message_html = << >>
    /\ meta_data = [u \in {} |-> None]
    /\ mc = NoConstruct
    /\ ret = None
    /\ parent = None
    /\ ref_fetches = [j \in 1..Len(input) |-> << >>]
    /\ member_fetches = [j \in 1..Len(input) |-> << >>]
    /\ channel_fetches = 0
    /\ checked = {}
    /\ frags = << >>
    /\ pipeline = [j \in 1..Len(input) |-> << >>]
    /\ resolver = "none"
    /\ guild_member = None
    /\ member = None
    /\ run = 1
    /\ first = None

\* an exception leaving gather_messages: the caller gets no return value
Raise(e) ==
    /\ pc' = "raised"
    /\ ret' = [k |-> "raised", error |-> e, at |-> i]

(* --------------------------- pure helpers ------------------------------ *)

\* html.escape on the texts of the model
escape_text(s) ==
    CASE s = "a<b" -> "a&lt;b"
      [] s = "a&lt;b" -> "a&amp;lt;b"
      [] OTHER -> s

html_escape(v) == IF v.k = "str" THEN Str(escape_text(v.s)) ELSE [k |-> "escaped", v |-> v]

_set_edit_at(message_edited_at) == [k |-> "edited_span", timestamp |-> message_edited_at]

\* MessageConstruct.to_local_time_str; created_at is self.message.created_at.
\* pytz localize() refuses a datetime that already has a tzinfo; astimezone()
\* reads a naive datetime as system local time.
to_local_time_str(created_at, time) ==
    IF ~created_at.tzinfo
    THEN IF time.tzinfo THEN [k |-> "ValueError"]
         ELSE [k |-> "strftime", t |-> time.t, from |-> "UTC"]
    ELSE [k |-> "strftime", t |-> time.t, from |-> IF time.tzinfo THEN "own" ELSE "system"]

\* MessageConstruct.set_time for message m, called on the construct of message self
set_time(self, m) ==
    [created |-> to_local_time_str(self.created_at, m.created_at),
     edited |-> IF Truthy(m.edited_timestamp)
                THEN to_local_time_str(self.created_at, m.edited_timestamp)
                ELSE Str("")]

\* the message the for loop is at, and the message under construction
At(a) == obj[a]

Cur == obj[mc.message]

\* object.__setattr__(message, field, v) / message.field = v on the heap
SetAttr(heap, a, field, v) == [heap EXCEPT ![a] = [@ EXCEPT ![field] = v]]

(* ------------------------------ gather_messages ------------------------ *)

\* a message_dict that leaves out the last message of the list
dict_of_but_last(heap, list) ==
    [id \in {heap[list[j]].id : j \in 1..(Len(list) - 1)} |->
        list[CHOOSE j \in 1..(Len(list) - 1) : heap[list[j]].id = id]]

\* {message.id: message for message in messages}: a later duplicate id wins
dict_of(heap, list) ==
    [id \in {heap[list[j]].id : j \in 1..Len(list)} |->
        list[CHOOSE j \in 1..Len(list) :
                /\ heap[list[j]].id = id
                /\ \A j2 \in 1..Len(list) : heap[list[j2]].id = id => j2 <= j]]

\* lines 458-464: locals, message_dict, and the test for a thread's first message
GatherMessages ==
    /\ pc = "gather"
    /\ message_dict' = dict_of(obj, messages)
    /\ IF Len(messages) = 0
       THEN Raise("IndexError")
       ELSE /\ pc' = IF channel_thread /\ Truthy(At(messages[1]).message_reference)
                     THEN "fetch_parent" ELSE "for"
            /\ UNCHANGED ret
    /\ UNCHANGED <<input, parent, obj, messages, channel_thread, i, previous_message, message_html,
                   meta_data, mc, ref_fetches, member_fetches, channel_fetches, checked, frags, pipeline>>
    /\ UNCHANGED resolver_vars
    /\ UNCHANGED retry_vars

\* a substitution that leaves the parent's own reference in place
substituted_with_reference(p) == p

\* line 469: messages[0].message_reference = None
substituted(p) == [p EXCEPT !.message_reference = None]

\* lines 465-469: the parent replaces messages[0] and loses its reference
FetchParent ==
    /\ pc = "fetch_parent"
    /\ channel_fetches' = channel_fetches + 1
    /\ \/ /\ \E e \in {"fetch_channel failed", "fetch_message failed"} : Raise(e)
          /\ UNCHANGED <<obj, messages, parent>>
       \/ /\ \E p \in ParentShapes(At(messages[1]).message_reference.message_id) :
                /\ obj' = Append(obj, substituted(p))
                /\ messages' = [messages EXCEPT ![1] = Len(obj) + 1]
                /\ parent' = p
          /\ pc' = "for"
          /\ UNCHANGED ret
    /\ UNCHANGED <<input, channel_thread, message_dict, i, previous_message, message_html,
                   meta_data, mc, ref_fetches, member_fetches, checked, frags, pipeline>>
    /\ UNCHANGED resolver_vars
    /\ UNCHANGED retry_vars

\* lines 471-479 and MessageConstruct.__init__: the loop takes the next message.
\* The field referenced stands for the local variable message of
\* build_reference: the message the reference resolved to, as it was found.
NewMessageConstruct ==
    /\ pc = "for"
    /\ i < Len(messages)
    /\ i' = i + 1
    /\ LET a == messages[i + 1]
           times == set_time(At(a), At(a))
       IN  IF times.created.k = "ValueError" \/ times.edited.k = "ValueError"
           THEN /\ pc' = "raised"
                /\ ret' = [k |-> "raised", error |-> "ValueError", at |-> i + 1]
                /\ UNCHANGED mc
           ELSE /\ mc' = [message |-> a, previous_message |-> previous_message,
                          message_html |-> << >>, embeds |-> 0, attachments |-> 0,
                          components |-> 0, reactions |-> [n |-> 0, wrapped |-> FALSE],
                          message_created_at |-> times.created,
                          message_edited_at |-> times.edited,
                          referenced |-> None]
                /\ pc' = "construct_message"
                /\ UNCHANGED ret
    /\ UNCHANGED <<input, parent, obj, messages, channel_thread, message_dict, previous_message,
                   message_html, meta_data, ref_fetches, member_fetches, channel_fetches, checked, frags,
                   pipeline>>
    /\ UNCHANGED resolver_vars
    /\ UNCHANGED retry_vars

\* a dispatch that knows the pin and thread-created notices only
dispatch_two_notices(type) ==
    CASE type = "CHANNEL_PINNED_MESSAGE" -> "build_pin"
      [] type = "THREAD_CREATED" -> "build_thread"
      [] OTHER -> "build_message"

\* construct_message, lines 83-92: the dispatch on the type tag
dispatch(type) ==
    CASE type = "CHANNEL_PINNED_MESSAGE" -> "build_pin"
      [] type = "THREAD_CREATED" -> "build_thread"
      [] type = "RECIPIENT_REMOVE" -> "build_thread_remove"
      [] type = "RECIPIENT_ADD" -> "build_thread_add"
      [] OTHER -> "build_message"

ConstructMessage ==
    /\ pc = "construct_message"
    /\ LET to == dispatch(Cur.type)
       IN  /\ pipeline' = [pipeline EXCEPT ![i] = Append(@, to)]
           /\ pc' = IF to = "build_message" THEN "build_content" ELSE to
    /\ UNCHANGED <<input, parent, obj, messages, channel_thread, message_dict, i, previous_message,
                   message_html, meta_data, mc, ret, ref_fetches, member_fetches, channel_fetches, checked,
                   frags>>
    /\ UNCHANGED resolver_vars
    /\ UNCHANGED retry_vars

(* ------------------------- the normal pipeline ------------------------- *)

\* fill_out(message_content, MESSAGE_CONTENT in markdown mode, EDIT verbatim)
fill_message_content(content, edit) ==
    [k |-> "message_content", MESSAGE_CONTENT |-> [k |-> "markdown", v |-> content], EDIT |-> edit]

\* build_content, lines 140-152
BuildContent ==
    /\ pc = "build_content"
    /\ IF ~Truthy(Cur.content)
       THEN /\ obj' = SetAttr(obj, mc.message, "content", Str(""))
            /\ UNCHANGED mc
       ELSE LET edit == IF Truthy(mc.message_edited_at)
                        THEN _set_edit_at(mc.message_edited_at)
                        ELSE mc.message_edited_at
            IN  /\ mc' = [mc EXCEPT !.message_edited_at = edit]
                /\ obj' = SetAttr(obj, mc.message, "content",
                                  fill_message_content(html_escape(Cur.content), edit))
    /\ pc' = "build_reference"
    /\ UNCHANGED <<input, parent, messages, channel_thread, message_dict, i, previous_message,
                   message_html, meta_data, ret, ref_fetches, member_fetches, channel_fetches, checked, frags,
                   pipeline>>
    /\ UNCHANGED resolver_vars
    /\ UNCHANGED retry_vars

\* lines 176-207: the banner for the resolved message m, and the content the
\* code leaves in m (lines 179-182 assign to message.content)
reference_content(m) ==
    IF ~Truthy(m.content) /\ ~Truthy(m.interaction) THEN Str("Click to see attachment")
    ELSE IF ~Truthy(m.content) /\ Truthy(m.interaction) THEN Str("Click to see command")
    ELSE m.content

\* an icon choice that looks at the embeds and attachments first
reference_icon_assets_first(m) ==
    IF m.embeds > 0 \/ m.attachments > 0
    THEN "reference_attachment_icon"
    ELSE IF Truthy(m.interaction) THEN "interaction_command_icon" ELSE ""

reference_icon(m) ==
    IF ~Truthy(m.interaction) /\ (m.embeds > 0 \/ m.attachments > 0)
    THEN "reference_attachment_icon"
    ELSE IF Truthy(m.interaction) THEN "interaction_command_icon" ELSE ""

reference_banner(self, m, message_id) ==
    LET edited == set_time(self, m).edited
    IN  [k |-> "message_reference",
         USER_ID |-> m.author,
         CONTENT |-> [k |-> "reference", v |-> reference_content(m)],
         EDIT |-> IF Truthy(edited) THEN _set_edit_at(edited) ELSE edited,
         ICON |-> reference_icon(m),
         MESSAGE_ID |-> message_id]

\* set_time(message) at line 190 raises when to_local_time_str does
reference_raises(self, m) ==
    LET times == set_time(self, m)
    IN  times.created.k = "ValueError" \/ times.edited.k = "ValueError"

message_reference_unknown == [k |-> "message_reference_unknown"]

\* build_reference up to the lookup in message_dict, and the rest of it when
\* the message is found there (lines 154-164, 176-209)
BuildReference ==
    /\ pc = "build_reference"
    /\ LET ref == Cur.message_reference
       IN  IF ~Truthy(ref)
           THEN /\ obj' = SetAttr(obj, mc.message, "message_reference", Str(""))
                /\ pc' = "build_interaction"
                /\ UNCHANGED ret
           ELSE IF ref.k # "MessageReference"
           THEN /\ Raise("AttributeError")
                /\ UNCHANGED obj
           ELSE IF ref.message_id \in DOMAIN message_dict
           THEN LET b == message_dict[ref.message_id]
                IN  IF reference_raises(Cur, At(b))
                    THEN /\ Raise("ValueError")
                         /\ obj' = SetAttr(obj, b, "content", reference_content(At(b)))
                    ELSE /\ obj' = SetAttr(SetAttr(obj, b, "content", reference_content(At(b))),
                                           mc.message, "message_reference",
                                           reference_banner(Cur, At(b), ref.message_id))
                         /\ pc' = "build_interaction"
                         /\ UNCHANGED ret
           ELSE /\ pc' = "fetch_message"
                /\ UNCHANGED <<obj, ret>>
    /\ mc' = IF /\ Truthy(Cur.message_reference)
                 /\ Cur.message_reference.k = "MessageReference"
                 /\ Cur.message_reference.message_id \in DOMAIN message_dict
              THEN [mc EXCEPT !.referenced = At(message_dict[Cur.message_reference.message_id])]
              ELSE mc
    /\ UNCHANGED <<input, parent, messages, channel_thread, message_dict, i, previous_message,
                   message_html, meta_data, ref_fetches, member_fetches, channel_fetches, checked, frags,
                   pipeline>>
    /\ UNCHANGED resolver_vars
    /\ UNCHANGED retry_vars

\* what the channel answers to fetch_message: a message, or an exception
FetchOutcomes(id) ==
    {[k |-> "Message", message |-> m] : m \in RemoteShapes(id)}
    \cup {[k |-> "NotFound"], [k |-> "HTTPException"], [k |-> "Exception"]}

\* the handler of lines 167-171, for an exception of class e that it catches
reference_after_error(e) == IF e = "NotFound" THEN message_reference_unknown ELSE Str("")

\* an except clause that catches NotFound alone
caught_not_found_only(e) == e = "NotFound"

\* which exception classes the except clause of line 167 catches
caught(e) == e \in {"NotFound", "HTTPException"}

\* build_reference from the remote fetch on (lines 165-171, 176-209)
FetchMessage ==
    /\ pc = "fetch_message"
    /\ \E out \in FetchOutcomes(Cur.message_reference.message_id) :
       /\ ref_fetches' = [ref_fetches EXCEPT ![i] = Append(@, out.k)]
       /\ mc' = IF out.k = "Message" THEN [mc EXCEPT !.referenced = out.message] ELSE mc
       /\ IF out.k = "Message"
          THEN IF reference_raises(Cur, out.message)
               THEN Raise("ValueError") /\ UNCHANGED obj
               ELSE /\ obj' = SetAttr(obj, mc.message, "message_reference",
                                      reference_banner(Cur, out.message,
                                                       Cur.message_reference.message_id))
                    /\ pc' = "build_interaction"
                    /\ UNCHANGED ret
          ELSE IF caught(out.k)
          THEN /\ obj' = SetAttr(obj, mc.message, "message_reference",
                                 reference_after_error(out.k))
               /\ pc' = "build_interaction"
               /\ UNCHANGED ret
          ELSE Raise(out.k) /\ UNCHANGED obj
    /\ UNCHANGED <<input, parent, messages, channel_thread, message_dict, i, previous_message,
                   message_html, meta_data, member_fetches, channel_fetches, checked, frags, pipeline>>
    /\ UNCHANGED resolver_vars
    /\ UNCHANGED retry_vars

\* build_interaction, lines 211-232
BuildInteraction ==
    /\ pc = "build_interaction"
    /\ LET inter == Cur.interaction
       IN  IF ~Truthy(inter)
           THEN /\ obj' = SetAttr(obj, mc.message, "interaction", Str(""))
                /\ pc' = "build_assets"
                /\ UNCHANGED ret
           ELSE IF inter.k # "MessageInteraction"
           THEN Raise("AttributeError") /\ UNCHANGED obj
           ELSE /\ obj' = SetAttr(obj, mc.message, "interaction",
                                  [k |-> "message_interaction", USER_ID |-> inter.user,
                                   COMMAND |-> inter.name])
                /\ pc' = "build_assets"
                /\ UNCHANGED ret
    /\ UNCHANGED <<input, parent, messages, channel_thread, message_dict, i, previous_message,
                   message_html, meta_data, mc, ref_fetches, member_fetches, channel_fetches, checked, frags,
                   pipeline>>
    /\ UNCHANGED resolver_vars
    /\ UNCHANGED retry_vars

\* build_assets, lines 252-266: one fragment per asset, reactions wrapped
BuildAssets ==
    /\ pc = "build_assets"
    /\ mc' = [mc EXCEPT !.embeds = @ + Cur.embeds,
                        !.attachments = @ + Cur.attachments,
                        !.components = @ + Cur.components,
                        !.reactions = [n |-> Cur.reactions, wrapped |-> Cur.reactions > 0]]
    /\ pc' = "build_message_template"
    /\ UNCHANGED <<input, parent, obj, messages, channel_thread, message_dict, i, previous_message,
                   message_html, meta_data, ret, ref_fetches, member_fetches, channel_fetches, checked, frags,
                   pipeline>>
    /\ UNCHANGED resolver_vars
    /\ UNCHANGED retry_vars

(* ------------------------------ the divider ---------------------------- *)

end_message == [t |-> "end_message"]

\* a divider check that does not compare the authors
_generate_message_divider_check_no_author(m, prev) ==
    \/ prev = None
    \/ m.message_reference # Str("")
    \/ prev.type # "DEFAULT"
    \/ m.interaction # Str("")
    \/ m.webhook_id # None
    \/ m.created_at.t > prev.created_at.t + FourMinutes

\* a divider check whose time test also fires at exactly four minutes
_generate_message_divider_check_ge(m, prev) ==
    \/ prev = None
    \/ m.message_reference # Str("")
    \/ prev.type # "DEFAULT"
    \/ m.interaction # Str("")
    \/ prev.author # m.author
    \/ m.webhook_id # None
    \/ m.created_at.t >= prev.created_at.t + FourMinutes

\* a divider check that does not look at the previous message's type
_generate_message_divider_check_no_type(m, prev) ==
    \/ prev = None
    \/ m.message_reference # Str("")
    \/ m.interaction # Str("")
    \/ prev.author # m.author
    \/ m.webhook_id # None
    \/ m.created_at.t > prev.created_at.t + FourMinutes

\* a divider check for which only the four notice types are not normal
_generate_message_divider_check_notices_only(m, prev) ==
    \/ prev = None
    \/ m.message_reference # Str("")
    \/ prev.type \in NoticeTypes
    \/ m.interaction # Str("")
    \/ prev.author # m.author
    \/ m.webhook_id # None
    \/ m.created_at.t > prev.created_at.t + FourMinutes

\* _generate_message_divider_check, lines 287-293; prev is None or the previous
\* Message object as it is now
_generate_message_divider_check(m, prev) ==
    \/ prev = None
    \/ m.message_reference # Str("")
    \/ prev.type # "DEFAULT"
    \/ m.interaction # Str("")
    \/ prev.author # m.author
    \/ m.webhook_id # None
    \/ m.created_at.t > prev.created_at.t + FourMinutes

\* the comparison of line 292 is reached and compares a naive with an aware datetime
divider_check_raises(m, prev) ==
    /\ prev # None
    /\ m.message_reference = Str("")
    /\ prev.type = "DEFAULT"
    /\ m.interaction = Str("")
    /\ prev.author = m.author
    /\ m.webhook_id = None
    /\ m.created_at.tzinfo # prev.created_at.tzinfo

\* a follow-up symbol that is shown for a reply-reference only
followup_symbol_reference_only(m) ==
    IF m.message_reference # Str("")
    THEN Str("<div class='chatlog__followup-symbol'></div>")
    ELSE Str("")

\* lines 304-309: the symbol shown next to a banner
followup_symbol(m) ==
    IF m.message_reference # Str("") \/ Truthy(m.interaction)
    THEN Str("<div class='chatlog__followup-symbol'></div>")
    ELSE Str("")

\* lines 304-336: the header of a new block, with the body of its first message
start_message(c, m) ==
    [t |-> "start_message",
     REFERENCE_SYMBOL |-> followup_symbol(m),
     REFERENCE |-> IF Truthy(m.message_reference) THEN m.message_reference ELSE m.interaction,
     USER_ID |-> m.author,
     TIMESTAMP |-> c.message_created_at,
     DEFAULT_TIMESTAMP |-> [k |-> "strftime", t |-> m.created_at.t,
                            from |-> IF m.created_at.tzinfo THEN "own" ELSE "UTC"],
     MESSAGE_ID |-> m.id,
     MESSAGE_CONTENT |-> m.content,
     EMBEDS |-> c.embeds, ATTACHMENTS |-> c.attachments,
     COMPONENTS |-> c.components, EMOJI |-> c.reactions]

\* lines 274-283: the body of a message that continues a block
message_body(c, m) ==
    [t |-> "message_body",
     MESSAGE_ID |-> m.id,
     MESSAGE_CONTENT |-> m.content,
     EMBEDS |-> c.embeds, ATTACHMENTS |-> c.attachments,
     COMPONENTS |-> c.components, EMOJI |-> c.reactions,
     TIMESTAMP |-> c.message_created_at]

PrevOf(c) == IF c.previous_message = None THEN None ELSE At(c.previous_message.at)

\* a divider that closes a block even when there is no previous message
generate_message_divider_unguarded(c, m, channel_audit) ==
    LET prev == PrevOf(c)
        closed == Append(c.message_html, end_message)
    IN  IF channel_audit
        THEN [html |-> closed, started |-> FALSE, checked |-> FALSE]
        ELSE IF _generate_message_divider_check(m, prev)
        THEN [html |-> Append(closed, start_message(c, m)), started |-> TRUE, checked |-> TRUE]
        ELSE [html |-> c.message_html, started |-> FALSE, checked |-> TRUE]

\* a divider that does not close the open block before a notice
generate_message_divider_audit_open(c, m, channel_audit) ==
    LET prev == PrevOf(c)
        closed == IF prev # None THEN Append(c.message_html, end_message) ELSE c.message_html
    IN  IF channel_audit
        THEN [html |-> c.message_html, started |-> FALSE, checked |-> FALSE]
        ELSE IF _generate_message_divider_check(m, prev)
        THEN [html |-> Append(closed, start_message(c, m)), started |-> TRUE, checked |-> TRUE]
        ELSE [html |-> c.message_html, started |-> FALSE, checked |-> TRUE]

\* generate_message_divider, lines 295-338: the new message_html, whether it
\* returned True, and whether it evaluated the check
generate_message_divider(c, m, channel_audit) ==
    LET prev == PrevOf(c)
        closed == IF prev # None THEN Append(c.message_html, end_message) ELSE c.message_html
    IN  IF channel_audit
        THEN [html |-> closed, started |-> FALSE, checked |-> FALSE]
        ELSE IF _generate_message_divider_check(m, prev)
        THEN [html |-> Append(closed, start_message(c, m)), started |-> TRUE, checked |-> TRUE]
        ELSE [html |-> c.message_html, started |-> FALSE, checked |-> TRUE]

\* the divider ran for message i: note whether it evaluated the check
divider_ran(d) == checked' = IF d.checked THEN checked \cup {i} ELSE checked

\* build_message_template, lines 268-285
BuildMessageTemplate ==
    /\ pc = "build_message_template"
    /\ IF divider_check_raises(Cur, PrevOf(mc))
       THEN Raise("TypeError") /\ checked' = checked \cup {i} /\ UNCHANGED mc
       ELSE LET d == generate_message_divider(mc, Cur, FALSE)
            IN  /\ divider_ran(d)
                /\ mc' = [mc EXCEPT !.message_html =
                             IF d.started THEN d.html ELSE Append(d.html, message_body(mc, Cur))]
                /\ pc' = "build_meta_data"
                /\ UNCHANGED ret
    /\ UNCHANGED <<input, parent, obj, messages, channel_thread, message_dict, i, previous_message,
                   message_html, meta_data, ref_fetches, member_fetches, channel_fetches, frags, pipeline>>
    /\ UNCHANGED resolver_vars
    /\ UNCHANGED retry_vars

\* line 130: message.author.joined_at if the author is a Member, else None; the
\* author of a webhook's message is a User
user_joined_at(message) ==
    IF message.webhook_id = None THEN [k |-> "joined_at", of |-> message.author] ELSE None

\* lines 126-138: the entry recorded for the author of a message
new_entry(message) ==
    [tag |-> message.author, count |-> 1, joined_at |-> user_joined_at(message)]

\* a build_meta_data that overwrites the entry instead of incrementing it
meta_data_after_reset(md, message) ==
    (message.author :> new_entry(message)) @@ [a \in DOMAIN md \ {message.author} |-> md[a]]

\* a build_meta_data that records the author anew with every message
meta_data_after_recorded_anew(md, message) ==
    IF message.author \in DOMAIN md
    THEN [md EXCEPT ![message.author] =
             [new_entry(message) EXCEPT !.count = md[message.author].count + 1]]
    ELSE (message.author :> new_entry(message)) @@ md

\* build_meta_data, lines 120-138, on the aggregate map
meta_data_after(md, message) ==
    IF message.author \in DOMAIN md
    THEN [md EXCEPT ![message.author] = [@ EXCEPT !.count = @ + 1]]
    ELSE (message.author :> new_entry(message)) @@ md

BuildMetaData ==
    /\ pc = "build_meta_data"
    /\ meta_data' = meta_data_after(meta_data, Cur)
    /\ pc' = "return"
    /\ UNCHANGED <<input, parent, obj, messages, channel_thread, message_dict, i, previous_message,
                   message_html, mc, ret, ref_fetches, member_fetches, channel_fetches, checked, frags,
                   pipeline>>
    /\ UNCHANGED resolver_vars
    /\ UNCHANGED retry_vars

(* ------------------------------ the notices ---------------------------- *)

FrameNotice == <<input, parent, obj, messages, channel_thread, message_dict, i, previous_message,
                 message_html, meta_data, ref_fetches, channel_fetches, frags, pipeline,
                 resolver_vars, retry_vars>>

\* build_pin, lines 104-106, with build_pin_template, lines 340-348
BuildPin ==
    /\ pc = "build_pin"
    /\ LET d == generate_message_divider(mc, Cur, TRUE)
       IN  /\ divider_ran(d)
           /\ IF Cur.message_reference.k # "MessageReference"
              THEN Raise("AttributeError") /\ UNCHANGED mc
              ELSE /\ mc' = [mc EXCEPT !.message_html =
                                Append(d.html, [t |-> "message_pin", MESSAGE_ID |-> Cur.id,
                                                NAME_TAG |-> Cur.author,
                                                REF_MESSAGE_ID |-> Cur.message_reference.message_id])]
                   /\ pc' = "return"
                   /\ UNCHANGED ret
    /\ UNCHANGED member_fetches
    /\ UNCHANGED FrameNotice

\* a build_thread that also aggregates the author of the notice
BuildThread_aggregating ==
    /\ pc = "build_thread"
    /\ LET d == generate_message_divider(mc, Cur, TRUE)
       IN  /\ divider_ran(d)
           /\ mc' = [mc EXCEPT !.message_html =
                        Append(d.html, [t |-> "message_thread", MESSAGE_ID |-> Cur.id,
                                        NAME_TAG |-> Cur.author, THREAD_NAME |-> Cur.content])]
    /\ meta_data' = meta_data_after(meta_data, Cur)
    /\ pc' = "return"
    /\ UNCHANGED <<ret, member_fetches>>
    /\ UNCHANGED <<input, parent, obj, messages, channel_thread, message_dict, i, previous_message,
                   message_html, ref_fetches, channel_fetches, frags, pipeline, resolver_vars,
                   retry_vars>>

\* build_thread, lines 108-110, with build_thread_template, lines 350-359
BuildThread ==
    /\ pc = "build_thread"
    /\ LET d == generate_message_divider(mc, Cur, TRUE)
       IN  /\ divider_ran(d)
           /\ mc' = [mc EXCEPT !.message_html =
                        Append(d.html, [t |-> "message_thread", MESSAGE_ID |-> Cur.id,
                                        NAME_TAG |-> Cur.author, THREAD_NAME |-> Cur.content])]
    /\ pc' = "return"
    /\ UNCHANGED <<ret, member_fetches>>
    /\ UNCHANGED FrameNotice

\* what guild.fetch_member answers for the member a notice names: the member,
\* None when the member is gone, or an exception
MemberOutcomes == {"Member", "None", "HTTPException"}

\* a build_remove / build_add that renders the notice without the member
member_result_soft(template, d, out) ==
    IF out = "HTTPException"
    THEN Raise("HTTPException") /\ UNCHANGED mc
    ELSE /\ mc' = [mc EXCEPT !.message_html =
                      Append(d.html, [t |-> template, MESSAGE_ID |-> Cur.id,
                                      NAME_TAG |-> Cur.author,
                                      RECIPIENT_NAME_TAG |-> Cur.mention_ids[1]])]
         /\ pc' = "return"
         /\ UNCHANGED ret

\* build_remove / build_add from the answer of fetch_member on: an exception
\* propagates, None fails at removed_member.id, a member is rendered
member_result(template, d, out) ==
    IF out = "HTTPException"
    THEN Raise("HTTPException") /\ UNCHANGED mc
    ELSE IF out = "None"
    THEN Raise("AttributeError") /\ UNCHANGED mc
    ELSE /\ mc' = [mc EXCEPT !.message_html =
                      Append(d.html, [t |-> template, MESSAGE_ID |-> Cur.id,
                                      NAME_TAG |-> Cur.author,
                                      RECIPIENT_NAME_TAG |-> Cur.mention_ids[1]])]
         /\ pc' = "return"
         /\ UNCHANGED ret

\* build_remove / build_add, lines 361-391: template is the notice's template
member_notice(template, out) ==
    LET d == generate_message_divider(mc, Cur, TRUE)
    IN  /\ divider_ran(d)
        /\ IF Len(Cur.mention_ids) = 0
           THEN Raise("IndexError") /\ UNCHANGED <<mc, member_fetches>>
           ELSE /\ member_fetches' = [member_fetches EXCEPT ![i] = Append(@, out)]
                /\ member_result(template, d, out)

\* build_thread_remove, lines 112-114
BuildThreadRemove ==
    /\ pc = "build_thread_remove"
    /\ \E out \in MemberOutcomes : member_notice("message_thread_remove", out)
    /\ UNCHANGED FrameNotice

\* build_thread_add, lines 116-118
BuildThreadAdd ==
    /\ pc = "build_thread_add"
    /\ \E out \in MemberOutcomes : member_notice("message_thread_add", out)
    /\ UNCHANGED FrameNotice

(* ------------------------- the loop and the return --------------------- *)

\* a loop that does not move previous_message on
Return_stale_previous ==
    /\ pc = "return"
    /\ message_html' = message_html \o mc.message_html
    /\ frags' = Append(frags, mc.message_html)
    /\ pc' = "for"
    /\ UNCHANGED <<input, parent, obj, messages, channel_thread, message_dict, i, meta_data, mc, ret,
                   ref_fetches, member_fetches, channel_fetches, checked, pipeline,
                   previous_message>>
    /\ UNCHANGED resolver_vars
    /\ UNCHANGED retry_vars

\* lines 481-482: construct_message returned
Return ==
    /\ pc = "return"
    /\ message_html' = message_html \o mc.message_html
    /\ frags' = Append(frags, mc.message_html)
    /\ previous_message' = Ref(mc.message)
    /\ pc' = "for"
    /\ UNCHANGED <<input, parent, obj, messages, channel_thread, message_dict, i, meta_data, mc, ret,
                   ref_fetches, member_fetches, channel_fetches, checked, pipeline>>
    /\ UNCHANGED resolver_vars
    /\ UNCHANGED retry_vars

div_close == [t |-> "</div>"]

\* lines 484-485: the loop is over
Finish ==
    /\ pc = "for"
    /\ i = Len(messages)
    /\ message_html' = Append(message_html, div_close)
    /\ ret' = [k |-> "returned", html |-> Append(message_html, div_close),
               meta_data |-> meta_data]
    /\ pc' = "done"
    /\ UNCHANGED <<input, parent, obj, messages, channel_thread, message_dict, i, previous_message,
                   meta_data, mc, ref_fetches, member_fetches, channel_fetches, checked, frags, pipeline>>
    /\ UNCHANGED resolver_vars
    /\ UNCHANGED retry_vars

Next ==
    \/ GatherMessages
    \/ FetchParent
    \/ NewMessageConstruct
    \/ ConstructMessage
    \/ BuildContent
    \/ BuildReference
    \/ FetchMessage
    \/ BuildInteraction
    \/ BuildAssets
    \/ BuildMessageTemplate
    \/ BuildMetaData
    \/ BuildPin
    \/ BuildThread
    \/ BuildThreadRemove
    \/ BuildThreadAdd
    \/ Return
    \/ Finish

Spec == Init /\ [][Next]_vars

(* -------------------------- the author resolvers ----------------------- *)

\* guild.id, which is also the id of the guild's default role
GuildId == "guild"

Color(value) == [k |-> "Color", value |-> value]

\* str(color) in the f-string of line 412 and the test of line 411: #rrggbb
hex(color) ==
    CASE color.value = 0 -> "#000000"
      [] color.value = 255 -> "#0000ff"
      [] color.value = 65280 -> "#00ff00"
      [] color.value = 16711680 -> "#ff0000"

Asset(url) == [k |-> "Asset", url |-> url]

PartialEmoji(id) == [k |-> "PartialEmoji", id |-> id]

Role(id, position, color, icon) == [id |-> id, position |-> position, color |-> color, icon |-> icon]

\* the default role, at the bottom of the hierarchy
DefaultRoles == {Role(GuildId, 0, Color(c), ic) : c \in {0, 255}, ic \in {None, Asset("everyone.png")}}

\* a role above it, with or without a colour of its own and an icon
OtherRoles(id, value) ==
    {Role(id, p, Color(c), ic) :
        p \in {1, 2}, c \in {0, value}, ic \in {None, Asset(id \o ".png"), PartialEmoji(id)}}

\* the members fetch_member can return: the default role and up to two other
\* roles at different positions
Members ==
    {[k |-> "Member", roles |-> {d} \cup rs] :
        d \in DefaultRoles,
        rs \in {{}} \cup {{r} : r \in OtherRoles("r1", 65280) \cup OtherRoles("r2", 16711680)}
               \cup {rs2 \in {{a, b} : a \in OtherRoles("r1", 65280), b \in OtherRoles("r2", 16711680)} :
                        \A a \in rs2, b \in rs2 : a.position = b.position => a = b}}

\* lines 401 and 420: r for r in member.roles if r.id != self.guild.id
roles_but_default(m) == {r \in m.roles : r.id # GuildId}

\* the first element of reversed(sorted(roles)): the role highest in the hierarchy
first_reversed(roles) == CHOOSE r \in roles : \A x \in roles : x.position <= r.position

\* the first element of sorted(roles): the role lowest in the hierarchy
first_sorted(roles) == CHOOSE r \in roles : \A x \in roles : x.position >= r.position

\* a colour resolver that walks the roles from the bottom of the hierarchy
_gather_user_colour_from_bottom(m) ==
    LET coloured == IF m = None THEN {} ELSE {r \in roles_but_default(m) : r.color.value # 0}
        color == IF m = None THEN None
                 ELSE IF coloured # {} THEN first_sorted(coloured).color ELSE Color(0)
        user_colour == IF m # None /\ hex(color) # "#000000" THEN hex(color) ELSE "#FFFFFF"
    IN  Str("color: " \o user_colour \o ";")

\* _gather_user_colour from the answer of _gather_member on, lines 398-412
_gather_user_colour(m) ==
    LET coloured == IF m = None THEN {} ELSE {r \in roles_but_default(m) : r.color.value # 0}
        color == IF m = None THEN None
                 ELSE IF coloured # {} THEN first_reversed(coloured).color ELSE Color(0)
        user_colour == IF m # None /\ hex(color) # "#000000" THEN hex(color) ELSE "#FFFFFF"
    IN  Str("color: " \o user_colour \o ";")

\* _gather_user_icon from the answer of _gather_member on, lines 417-431
_gather_user_icon(m) ==
    IF m = None THEN Str("")
    ELSE LET with_icon == {r \in roles_but_default(m) : r.icon # None}
         IN  IF with_icon = {} THEN Str("")
             ELSE LET display_icon == first_reversed(with_icon).icon
                      display_icon_url ==
                          IF display_icon.k = "Asset" THEN display_icon.url
                          ELSE "https://cdn.discordapp.com/emojis/" \o display_icon.id \o ".png"
                  IN  Str("<img class='chatlog__role-icon' src='" \o display_icon_url
                          \o "' alt='Role Icon'>")

\* the variables of gather_messages, which a resolver run on its own leaves alone
gather_vars == <<input, obj, messages, channel_thread, message_dict, i, previous_message,
                 message_html, meta_data, mc, parent, ref_fetches, member_fetches,
                 channel_fetches, checked, frags, pipeline>>

\* one call of _gather_user_colour or _gather_user_icon for an author whom the
\* guild holds as guild_member, or no longer holds
ResolverInit ==
    /\ input = << >>
    /\ obj = << >>
    /\ messages = << >>
    /\ channel_thread = FALSE
    /\ message_dict = [u \in {} |-> 0]
    /\ i = 0
    /\ previous_message = None
    /\ message_html = << >>
    /\ meta_data = [u \in {} |-> None]
    /\ mc = NoConstruct
    /\ ret = None
    /\ parent = None
    /\ ref_fetches = << >>
    /\ member_fetches = << >>
    /\ channel_fetches = 0
    /\ checked = {}
    /\ frags = << >>
    /\ pipeline = << >>
    /\ pc = "_gather_member"
    /\ resolver \in {"_gather_user_colour", "_gather_user_icon"}
    /\ guild_member \in Members \cup {None}
    /\ member = None
    /\ run = 1
    /\ first = None

\* _gather_member, lines 393-394, as called at lines 397 and 415: fetch_member
\* answers with the member or None, or raises
GatherMember ==
    /\ pc = "_gather_member"
    /\ \/ /\ member' = guild_member
          /\ pc' = resolver
          /\ UNCHANGED ret
       \/ /\ Raise("HTTPException")
          /\ UNCHANGED member
    /\ UNCHANGED <<resolver, guild_member>>
    /\ UNCHANGED retry_vars
    /\ UNCHANGED gather_vars

\* _gather_user_colour, lines 398-412
GatherUserColour ==
    /\ pc = "_gather_user_colour"
    /\ ret' = [k |-> "returned", value |-> _gather_user_colour(member)]
    /\ pc' = "done"
    /\ UNCHANGED resolver_vars
    /\ UNCHANGED retry_vars
    /\ UNCHANGED gather_vars

\* _gather_user_icon, lines 417-431
GatherUserIcon ==
    /\ pc = "_gather_user_icon"
    /\ ret' = [k |-> "returned", value |-> _gather_user_icon(member)]
    /\ pc' = "done"
    /\ UNCHANGED resolver_vars
    /\ UNCHANGED retry_vars
    /\ UNCHANGED gather_vars

ResolverNext ==
    \/ GatherMember
    \/ GatherUserColour
    \/ GatherUserIcon

ResolverSpec == ResolverInit /\ [][ResolverNext]_vars

(* ---------------------- a second call on the same list ------------------ *)

\* the lists a caller runs gather_messages on twice
RetryLists == FreeLists \cup EditedLists \cup QuotedLists

RetryInit == Init /\ input \in RetryLists

\* the first call has returned and the caller calls gather_messages again with
\* the same list: lines 458-460 start from fresh locals, while the list and the
\* Message objects are as the first call left them
CallAgain ==
    /\ pc = "done"
    /\ run = 1
    /\ run' = 2
    /\ first' = [ret |-> ret, ref_fetches |-> ref_fetches, member_fetches |-> member_fetches]
    /\ pc' = "gather"
    /\ i' = 0
    /\ previous_message' = None
    /\ message_html' = << >>
    /\ meta_data' = [u \in {} |-> None]
    /\ message_dict' = [u \in {} |-> 0]
    /\ mc' = NoConstruct
    /\ ret' = None
    /\ ref_fetches' = [j \in 1..Len(messages) |-> << >>]
    /\ member_fetches' = [j \in 1..Len(messages) |-> << >>]
    /\ channel_fetches' = 0
    /\ checked' = {}
    /\ frags' = << >>
    /\ pipeline' = [j \in 1..Len(messages) |-> << >>]
    /\ UNCHANGED <<input, obj, messages, channel_thread, parent>>
    /\ UNCHANGED resolver_vars

RetryNext ==
    \/ Next
    \/ CallAgain

RetrySpec == RetryInit /\ [][RetryNext]_vars

(* ======================================================================= *)
(*                               the claims                                *)
(* ======================================================================= *)

\* the message at address a as it entered the for loop: the caller's message,
\* or the fetched parent with its reference cleared
Entry(a) == IF a <= Len(input) THEN input[a] ELSE [parent EXCEPT !.message_reference = None]

\* the j-th message of the (possibly substituted) sequence, as it entered the loop
Nth(j) == Entry(messages[j])

IsNotice(m) == m.type \in NoticeTypes

CountOf(md, a) == IF a \in DOMAIN md THEN md[a].count ELSE 0

LastOf(s) == s[Len(s)]

Constructing == pc \in {"construct_message", "build_content", "build_reference", "fetch_message",
                        "build_interaction", "build_assets", "build_message_template",
                        "build_meta_data", "build_pin", "build_thread", "build_thread_remove",
                        "build_thread_add", "return"}

(* ------------------------------- C1 ------------------------------------ *)

\* C1 as stated: after each message, and in the returned aggregate, the count
\* stored for author A equals the number of processed entries authored by A,
\* whatever their type tag.
C1_CountsEveryType ==
    /\ pc \in {"for", "done"} =>
          \A a \in Users \cup {Target} :
             CountOf(meta_data, a) = Cardinality({j \in 1..i : Nth(j).author = a})
    /\ ret.k = "returned" =>
          \A a \in Users \cup {Target} :
             CountOf(ret.meta_data, a) = Cardinality({j \in 1..Len(messages) : Nth(j).author = a})

\* C1 amended: after each message, and in the returned aggregate, the count
\* stored for author A equals the number of processed entries authored by A
\* that went through the normal pipeline; pin, thread-created, member-added
\* and member-removed notices are not counted, and an author with no counted
\* message has no entry.
C1_CountsNormalMessages ==
    /\ pc \in {"for", "done"} =>
          /\ \A a \in Users \cup {Target} :
                CountOf(meta_data, a) =
                   Cardinality({j \in 1..i : Nth(j).author = a /\ ~IsNotice(Nth(j))})
          /\ \A a \in DOMAIN meta_data : meta_data[a].count >= 1
    /\ ret.k = "returned" =>
          \A a \in Users \cup {Target} :
             CountOf(ret.meta_data, a) =
                Cardinality({j \in 1..Len(messages) : Nth(j).author = a /\ ~IsNotice(Nth(j))})

\* two normal messages and nothing else by the same author have been returned
C1_Witness ==
    /\ ret.k = "returned"
    /\ Len(messages) = 2
    /\ Nth(1).author = Nth(2).author
    /\ ~IsNotice(Nth(1)) /\ ~IsNotice(Nth(2))
    /\ CountOf(ret.meta_data, Nth(1).author) = 2

(* ------------------------------- C2 ------------------------------------ *)

\* build_message_template has just run for message i
TemplateBuilt == pc = "build_meta_data"

StartsBlock == LastOf(mc.message_html).t = "start_message"

ContinuesBlock == mc.message_html = <<message_body(mc, Cur)>>

\* the conditions of the claim other than the reply-reference, on the input
OtherBoundaryInputs ==
    \/ i = 1
    \/ Nth(i).interaction # None
    \/ Nth(i - 1).type # "DEFAULT"
    \/ Nth(i).author # Nth(i - 1).author
    \/ Nth(i).webhook_id # None
    \/ Nth(i).created_at.t > Nth(i - 1).created_at.t + FourMinutes

\* C2 as stated: a message of the normal pipeline starts a new block iff it is
\* the first, carries a reply-reference (whatever its resolution gives), carries
\* an interaction, follows a message whose type is not the normal one, has
\* another author than its predecessor, comes from a webhook, or is more than
\* four minutes later; otherwise it emits only a body.
C2_BoundaryIffInputs ==
    TemplateBuilt =>
       /\ StartsBlock <=> (Nth(i).message_reference # None \/ OtherBoundaryInputs)
       /\ ~StartsBlock => ContinuesBlock

\* the remote fetch for the reference of message i failed with an HTTP error
\* other than not-found, which clears the reference
ReferenceCleared == i \in 1..Len(messages) /\ ref_fetches[i] = <<"HTTPException">>

\* C2 amended: as C2, except that a reply-reference counts only if resolving
\* it did not end in a fetch failure other than not-found; such a failure clears
\* the reference and the message is then grouped as if it carried none.  The
\* previous-type condition is that the previous message's type tag is not
\* DEFAULT.
C2_BoundaryIffResolvedInputs ==
    TemplateBuilt =>
       /\ StartsBlock <=> ((Nth(i).message_reference # None /\ ~ReferenceCleared)
                            \/ OtherBoundaryInputs)
       /\ ~StartsBlock => ContinuesBlock

\* a message exactly four minutes after its predecessor continues the block
C2_Witness ==
    /\ TemplateBuilt
    /\ i = 2
    /\ Nth(2).created_at.t = Nth(1).created_at.t + FourMinutes
    /\ ContinuesBlock

(* ------------------------------- C3 ------------------------------------ *)

NoticeTemplate(type) ==
    CASE type = "CHANNEL_PINNED_MESSAGE" -> "message_pin"
      [] type = "THREAD_CREATED" -> "message_thread"
      [] type = "RECIPIENT_REMOVE" -> "message_thread_remove"
      [] type = "RECIPIENT_ADD" -> "message_thread_add"

\* C3: a pin, thread-created, member-added or member-removed message emits,
\* when it is not the first, the closing fragment and then its notice
\* template, without the divider check being evaluated; and the message
\* constructed right after a notice closes the block first and, if it is a
\* normal message, opens a new block with a header.
C3_NoticeForcesBoundary ==
    pc = "return" =>
       /\ IsNotice(Nth(i)) =>
             /\ i \notin checked
             /\ Len(mc.message_html) = (IF i > 1 THEN 2 ELSE 1)
             /\ i > 1 => mc.message_html[1] = end_message
             /\ LastOf(mc.message_html).t = NoticeTemplate(Nth(i).type)
             /\ LastOf(mc.message_html).MESSAGE_ID = Nth(i).id
       /\ (i > 1 /\ IsNotice(Nth(i - 1))) =>
             /\ mc.message_html[1] = end_message
             /\ ~IsNotice(Nth(i)) => /\ Len(mc.message_html) = 2
                                     /\ mc.message_html[2].t = "start_message"

\* a normal message that differs from the notice before it in nothing the
\* divider check reads but the type has been constructed
C3_Witness ==
    /\ pc = "return"
    /\ i = 2
    /\ IsNotice(Nth(1)) /\ Nth(2).type = "DEFAULT"
    /\ Nth(2).author = Nth(1).author
    /\ Nth(2).created_at = Nth(1).created_at
    /\ Nth(2).message_reference = None /\ Nth(2).interaction = None
    /\ Nth(2).webhook_id = None
    /\ mc.message_html[2].t = "start_message"

(* ------------------------------- C4 ------------------------------------ *)

\* the id is the id of a message of the caller's list
Loaded(mid) == \E j \in 1..Len(input) : input[j].id = mid

\* message j goes through build_reference with a reference to a message
\* that is not in the caller's list
NeedsFetch(j) ==
    /\ ~IsNotice(Nth(j))
    /\ Nth(j).message_reference # None
    /\ ~Loaded(Nth(j).message_reference.message_id)

\* build_reference is over for message j
ReferenceDone(j) ==
    \/ j < i
    \/ j = i /\ pc \in {"build_interaction", "build_assets", "build_message_template",
                        "build_meta_data", "return", "for", "done"}

\* C4: build_reference issues no fetch_message for a reference to a message of
\* the caller's list (or for no reference), and exactly one, whatever its
\* outcome, for a reference to any other message.
C4_OneFetchIffNotLoaded ==
    \A j \in 1..Len(messages) :
       /\ Len(ref_fetches[j]) <= 1
       /\ Len(ref_fetches[j]) = 1 => NeedsFetch(j)
       /\ (ReferenceDone(j) /\ NeedsFetch(j)) => Len(ref_fetches[j]) = 1

\* one reply resolved from the list without a fetch, another by a fetch that failed
C4_Witness ==
    /\ pc = "done"
    /\ \E j \in 1..Len(messages) :
          /\ ~IsNotice(Nth(j)) /\ Nth(j).message_reference # None
          /\ Loaded(Nth(j).message_reference.message_id)
          /\ ref_fetches[j] = << >>
    /\ \E j \in 1..Len(messages) : NeedsFetch(j) /\ ref_fetches[j] = <<"NotFound">>

(* ------------------------------- C5 ------------------------------------ *)

\* the fetch for the reference of message j ended in failure e
FetchFailed(j, e) == j \in 1..Len(messages) /\ ref_fetches[j] = <<e>>

ReplyBanners == {"message_reference", "message_reference_unknown"}

\* what a failed fetch of class e leaves in the reference of message i, and
\* in the header of the block
FailureRendered(e) ==
    /\ (FetchFailed(i, e) /\ pc = "build_interaction") =>
          Cur.message_reference = (IF e = "NotFound" THEN message_reference_unknown ELSE Str(""))
    /\ (FetchFailed(i, e) /\ TemplateBuilt) =>
          IF e = "NotFound"
          THEN /\ StartsBlock
               /\ LastOf(mc.message_html).REFERENCE = message_reference_unknown
          ELSE \A n \in 1..Len(mc.message_html) :
                  mc.message_html[n].t = "start_message" =>
                     mc.message_html[n].REFERENCE.k \notin ReplyBanners

\* the failure of the fetch for message j is not what ended gather_messages
NotAbortedBy(j) == ~(pc = "raised" /\ ret.at = j /\ ret.error \in {"NotFound", "HTTPException", "Exception"})

\* C5 as stated: a not-found failure renders the deleted-message banner, any
\* other fetch failure clears the reference, and no fetch failure aborts the
\* transcript.
C5_NoFetchFailureAborts ==
    /\ \A e \in {"NotFound", "HTTPException", "Exception"} : FailureRendered(e)
    /\ \A j \in 1..Len(messages) :
          (ref_fetches[j] # << >> /\ ref_fetches[j][1] # "Message") => NotAbortedBy(j)

\* C5 amended: a not-found failure renders the deleted-message banner and any
\* other HTTP error (an HTTPException) clears the reference, and neither
\* aborts the transcript; a fetch failure that is not an HTTPException is not
\* caught and leaves gather_messages as an exception.
C5_HttpFailuresDoNotAbort ==
    /\ \A e \in {"NotFound", "HTTPException"} : FailureRendered(e)
    /\ \A j \in 1..Len(messages) :
          /\ (FetchFailed(j, "NotFound") \/ FetchFailed(j, "HTTPException")) => NotAbortedBy(j)
          /\ FetchFailed(j, "Exception") => (pc = "raised" /\ ret.k = "raised" /\ ret.at = j)

\* the transcript was returned although the reference of its first message
\* could not be fetched because of an HTTP error other than not-found
C5_Witness ==
    /\ ret.k = "returned"
    /\ Len(messages) = 2
    /\ FetchFailed(1, "HTTPException")
    /\ Len(frags) = 2

(* ------------------------------- C6 ------------------------------------ *)

\* C6: when the member named by a member-added or member-removed notice
\* cannot be fetched, the one lookup is not retried, gather_messages ends in
\* an exception raised at that message and the caller gets no return value.
C6_MemberFailurePropagates ==
    /\ \A j \in 1..Len(messages) :
          /\ Len(member_fetches[j]) <= 1
          /\ (member_fetches[j] # << >> /\ member_fetches[j][1] # "Member") =>
                /\ pc = "raised"
                /\ ret.k = "raised"
                /\ ret.at = j
    /\ pc = "raised" => (ret.k = "raised" /\ "html" \notin DOMAIN ret /\ "meta_data" \notin DOMAIN ret)
    /\ ret.k = "returned" => pc = "done"

\* the member of a notice in second position is gone, after the first
\* message had been rendered
C6_Witness ==
    /\ pc = "raised"
    /\ i = 2
    /\ Nth(2).type \in {"RECIPIENT_ADD", "RECIPIENT_REMOVE"}
    /\ member_fetches[2] = <<"None">>
    /\ Len(frags) = 1
    /\ frags[1] # << >>

(* ------------------------------- C7 ------------------------------------ *)

\* the first message is in a thread channel and carries a reply-reference
ThreadStarter == Len(input) > 0 /\ channel_thread /\ input[1].message_reference # None

\* the substitution and its absence, common to C7 as stated and as amended
SubstitutionDone ==
    /\ ~ThreadStarter => (channel_fetches = 0 /\ parent = None
                          /\ messages = [j \in 1..Len(input) |-> j])
    /\ (ThreadStarter /\ pc \notin {"gather", "fetch_parent", "raised"}) =>
          (parent # None /\ channel_fetches = 1)
    /\ parent # None =>
          /\ messages = [j \in 1..Len(input) |-> IF j = 1 THEN Len(input) + 1 ELSE j]
          /\ parent.id = input[1].message_reference.message_id
          /\ ref_fetches[1] = << >>
          /\ (pc = "for" /\ i = 0) =>
                (obj[messages[1]] = [parent EXCEPT !.message_reference = None] /\ frags = << >>)

\* the substituted parent has been rendered: one header, in first position,
\* with no reply banner
ParentHeader(f) ==
    /\ frags[1] = <<f>>
    /\ f.t = "start_message"
    /\ f.MESSAGE_ID = parent.id
    /\ f.REFERENCE.k \notin ReplyBanners

\* C7 as stated: the first message of a thread that carries a reference is
\* replaced before any rendering by the fetched parent with its reference
\* cleared; the parent is rendered first, starts the first block and shows
\* neither a reply banner nor a follow-up symbol; otherwise nothing is
\* substituted and no channel is fetched.
C7_ParentNeverShowsSymbol ==
    /\ SubstitutionDone
    /\ (parent # None /\ Len(frags) >= 1) =>
          /\ ParentHeader(frags[1][1])
          /\ frags[1][1].REFERENCE_SYMBOL = Str("")

\* C7 amended: as C7, except that the substituted parent shows the follow-up
\* symbol, with its interaction banner, exactly when the parent itself
\* carries an interaction; it never shows a reply banner.
C7_ParentNeverShowsReplyBanner ==
    /\ SubstitutionDone
    /\ (parent # None /\ Len(frags) >= 1) =>
          /\ ParentHeader(frags[1][1])
          /\ frags[1][1].REFERENCE_SYMBOL # Str("") <=> parent.interaction # None
          /\ parent.interaction # None => frags[1][1].REFERENCE.k = "message_interaction"
          /\ parent.interaction = None => frags[1][1].REFERENCE = Str("")

\* a parent that is itself a reply has been rendered in first position
C7_Witness ==
    /\ parent # None
    /\ parent.message_reference # None
    /\ Len(frags) >= 1
    /\ frags[1][1].t = "start_message"

(* ------------------------------- C8 ------------------------------------ *)

\* C8: the caller's list and the content, reply-reference and interaction of
\* every message of it are, at every moment, what the caller supplied.
C8_InputsNeverMutated ==
    /\ messages = [j \in 1..Len(input) |-> j]
    /\ \A a \in 1..Len(input) :
          /\ obj[a].content = input[a].content
          /\ obj[a].message_reference = input[a].message_reference
          /\ obj[a].interaction = input[a].interaction

(* ------------------------------- C9 ------------------------------------ *)

RECURSIVE Flatten(_)
Flatten(ss) == IF ss = << >> THEN << >> ELSE Head(ss) \o Flatten(Tail(ss))

\* the fragments that render a message, without the closing fragments
Rendered(html) == SelectSeq(html, LAMBDA f : f.t \notin {"end_message", "</div>"})

\* C9: the construct of message i is given message i-1 as previous message and
\* None for the first; while it is in flight every earlier message is
\* finished and no later one has begun; and the returned HTML is the
\* fragments of the messages in input order, one rendering per message,
\* followed by one trailing closing fragment.
C9_SequentialInOrder ==
    /\ Constructing =>
          /\ mc.message = messages[i]
          /\ mc.previous_message = (IF i = 1 THEN None ELSE Ref(messages[i - 1]))
          /\ Len(frags) = i - 1
          /\ \A j \in 1..Len(messages) :
                /\ j < i => pipeline[j] # << >>
                /\ j > i => (pipeline[j] = << >> /\ ref_fetches[j] = << >>
                             /\ member_fetches[j] = << >>)
          /\ \A a \in DOMAIN meta_data :
                meta_data[a].count <= Cardinality({n \in 1..i : Nth(n).author = a})
    /\ pc = "for" => (Len(frags) = i /\ message_html = Flatten(frags)
                      /\ previous_message = (IF i = 0 THEN None ELSE Ref(messages[i])))
    /\ ret.k = "returned" =>
          /\ Len(frags) = Len(messages)
          /\ ret.html = Flatten(frags) \o <<div_close>>
          /\ Len(Rendered(ret.html)) = Len(messages)
          /\ \A j \in 1..Len(messages) : Rendered(ret.html)[j].MESSAGE_ID = Nth(j).id
          /\ Cardinality({n \in 1..Len(ret.html) : ret.html[n] = div_close}) = 1

\* the second message is under construction after the first was finished
C9_Witness ==
    /\ pc = "build_message_template"
    /\ i = 2
    /\ Len(input) = 2
    /\ mc.previous_message = Ref(messages[1])
    /\ frags # << >>

(* ------------------------------- C10 ----------------------------------- *)

\* the list is one normal text message without reference, interaction or assets
SinglePlain ==
    /\ Len(input) = 1
    /\ ~IsNotice(input[1])
    /\ Truthy(input[1].content)
    /\ input[1].message_reference = None /\ input[1].interaction = None
    /\ input[1].embeds = 0 /\ input[1].attachments = 0
    /\ input[1].components = 0 /\ input[1].reactions = 0

\* C10: a single plain text message gives one header and the trailing closing
\* fragment and nothing else, with empty reference, symbol and asset slots,
\* and an aggregate map holding its author alone, with count 1.
C10_SinglePlainMessage ==
    (SinglePlain /\ pc = "done") =>
       /\ ret.k = "returned"
       /\ Len(ret.html) = 2
       /\ ret.html[1].t = "start_message"
       /\ ret.html[1].MESSAGE_ID = input[1].id
       /\ ret.html[1].REFERENCE = Str("") /\ ret.html[1].REFERENCE_SYMBOL = Str("")
       /\ ret.html[1].EMBEDS = 0 /\ ret.html[1].ATTACHMENTS = 0
       /\ ret.html[1].COMPONENTS = 0
       /\ ret.html[1].EMOJI = [n |-> 0, wrapped |-> FALSE]
       /\ ret.html[1].MESSAGE_CONTENT.MESSAGE_CONTENT =
             [k |-> "markdown", v |-> html_escape(input[1].content)]
       /\ ret.html[2] = div_close
       /\ DOMAIN ret.meta_data = {input[1].author}
       /\ ret.meta_data[input[1].author].count = 1

\* the transcript of a single plain message with text to escape was returned
C10_Witness ==
    /\ SinglePlain
    /\ pc = "done"
    /\ input[1].content = Str("a<b")

(* ------------------------------- C11 ----------------------------------- *)

\* the list holds only DEFAULT messages that come from no webhook and carry
\* neither a reference nor an interaction
PlainConversation ==
    /\ Len(input) >= 1
    /\ \A j \in 1..Len(input) :
          /\ input[j].type = "DEFAULT"
          /\ input[j].webhook_id = None
          /\ input[j].message_reference = None
          /\ input[j].interaction = None

\* the number of block headers in a piece of output
Opened(html) == Cardinality({n \in 1..Len(html) : html[n].t = "start_message"})

\* the adjacent pairs, among the first n messages, whose authors differ or whose
\* second message was created more than four minutes after the first
DistantPairs(n) ==
    {j \in 1..(n - 1) :
        \/ input[j + 1].author # input[j].author
        \/ input[j + 1].created_at.t > input[j].created_at.t + FourMinutes}

\* [A at 00:00:00, A at 00:00:30, B at 00:01:00]
ExampleConversation ==
    <<[Plain(1) EXCEPT !.created_at = DateTime(0, TRUE)],
      [Plain(2) EXCEPT !.created_at = DateTime(30, TRUE)],
      [Plain(3) EXCEPT !.author = "B", !.created_at = DateTime(60, TRUE)]>>

ByItsOwnZone(time, shown) ==
    /\ shown.k = "strftime"
    /\ shown.from = "UTC" <=> ~time.tzinfo

\* the reference of message i has just been resolved to a message and rendered
ReferenceResolved ==
    /\ pc = "build_interaction"
    /\ mc.referenced # None
    /\ Cur.message_reference.k = "message_reference"

\* C12: every timestamp the builder converts for display (the creation time
\* and the edit time of the message, the edit time of the message a reference
\* resolves to, the creation time in a block header) is localized to UTC if and
\* only if that timestamp itself has no tzinfo, whatever the tzinfo of any other
\* timestamp, and is then converted; no conversion fails.
C12_EachTimestampByItsOwnZone ==
    /\ pc = "construct_message" =>
          /\ ByItsOwnZone(Cur.created_at, mc.message_created_at)
          /\ Truthy(Cur.edited_timestamp) =>
                ByItsOwnZone(Cur.edited_timestamp, mc.message_edited_at)
    /\ (ReferenceResolved /\ Truthy(mc.referenced.edited_timestamp)) =>
          ByItsOwnZone(mc.referenced.edited_timestamp, Cur.message_reference.EDIT.timestamp)
    /\ (TemplateBuilt /\ StartsBlock) =>
          ByItsOwnZone(Cur.created_at, LastOf(mc.message_html).DEFAULT_TIMESTAMP)
    /\ ~(ret.k = "raised" /\ ret.error = "ValueError")

(* ------------------------------- C13 ----------------------------------- *)

\* the positions of the coroutine inside each of the five pipelines
PipelineSteps(name) ==
    IF name = "build_message"
    THEN {"build_content", "build_reference", "fetch_message", "build_interaction",
          "build_assets", "build_message_template", "build_meta_data"}
    ELSE {name}

\* the pipeline the claim gives to a type tag
PipelineFor(type) ==
    IF type \notin NoticeTypes THEN "build_message"
    ELSE IF NoticeTemplate(type) = "message_pin" THEN "build_pin"
    ELSE IF NoticeTemplate(type) = "message_thread" THEN "build_thread"
    ELSE IF NoticeTemplate(type) = "message_thread_remove" THEN "build_thread_remove"
    ELSE "build_thread_add"

\* construct_message has dispatched message j: an earlier message, or the one
\* whose MessageConstruct was built and has left the dispatch
Dispatched(j) ==
    \/ j < i
    \/ j = i /\ pc # "construct_message" /\ mc # NoConstruct /\ mc.message = messages[j]

\* C13: construct_message runs, for every message, exactly one of the five
\* pipelines: the pin, thread-created, member-removed or member-added pipeline
\* for a message with that type tag, and the normal pipeline for every other
\* tag; while a message is under construction the coroutine is inside that one
\* pipeline, and what it emits last is that pipeline's template.
C13_ExactlyOnePipeline ==
    /\ \A j \in 1..Len(messages) :
          /\ Len(pipeline[j]) = (IF Dispatched(j) THEN 1 ELSE 0)
          /\ Dispatched(j) => pipeline[j][1] = PipelineFor(Nth(j).type)
          /\ j <= Len(frags) =>
                LastOf(frags[j]).t =
                   (IF IsNotice(Nth(j)) THEN NoticeTemplate(Nth(j).type)
                    ELSE IF Len(frags[j]) = 1 /\ j > 1 THEN "message_body" ELSE "start_message")
    /\ (Constructing /\ pc \notin {"construct_message", "return"}) =>
          pc \in PipelineSteps(PipelineFor(Nth(i).type))

\* a command response and a member-removed notice have been constructed, each
\* by its own pipeline
C13_Witness ==
    /\ ret.k = "returned"
    /\ Len(messages) = 2
    /\ Nth(1).type = "APPLICATION_COMMAND" /\ pipeline[1] = <<"build_message">>
    /\ Nth(2).type = "RECIPIENT_REMOVE" /\ pipeline[2] = <<"build_thread_remove">>

(* ------------------------------- C14 ----------------------------------- *)

\* the member's roles other than the default role that have a colour
ColouredRoles(m) == {r \in m.roles : r.id # GuildId /\ r.color.value # 0}

White == Str("color: #FFFFFF;")

\* C14: for an author whose membership was fetched, the colour resolver
\* returns the colour of the highest role that has a non-zero colour among the
\* member's roles other than the guild's default role, and white when there is
\* no such role; when the lookup yields no member the colour resolver returns
\* white and the icon resolver the empty fragment; and nothing but a failure of
\* the lookup itself makes a resolver raise.
C14_ColourOfHighestColouredRole ==
    /\ (resolver = "_gather_user_colour" /\ pc = "done") =>
          /\ ret.k = "returned"
          /\ IF member = None \/ ColouredRoles(member) = {}
             THEN ret.value = White
             ELSE \E r \in ColouredRoles(member) :
                     /\ \A x \in ColouredRoles(member) : x.position <= r.position
                     /\ ret.value = Str("color: " \o hex(r.color) \o ";")
                     /\ ret.value # White
    /\ (resolver = "_gather_user_icon" /\ pc = "done" /\ member = None) =>
          ret = [k |-> "returned", value |-> Str("")]
    /\ (resolver # "none" /\ pc \in {resolver, "done"}) => member = guild_member
    /\ (resolver # "none" /\ pc = "raised") => (member = None /\ ret.error = "HTTPException")

\* the colour was resolved for a member whose two roles both have a colour,
\* the one with the smaller id standing higher, next to a coloured default role
C14_Witness ==
    /\ resolver = "_gather_user_colour"
    /\ pc = "done"
    /\ member # None
    /\ \E d \in member.roles : d.id = GuildId /\ d.color.value # 0
    /\ \E a \in member.roles, b \in member.roles :
          /\ a.id = "r1" /\ b.id = "r2"
          /\ a.color.value # 0 /\ b.color.value # 0
          /\ a.position > b.position
    /\ ret.value = Str("color: #00ff00;")

(* ------------------------------- C15 ----------------------------------- *)

\* a fragment that opens a block: a header, or the template of a notice
OpensBlock(f) == f.t \in {"start_message", "message_pin", "message_thread",
                          "message_thread_remove", "message_thread_add"}

\* a fragment that closes a block: end_message, or the trailing </div>
ClosesBlock(f) == f.t \in {"end_message", "</div>"}

Opens(html) == Cardinality({n \in 1..Len(html) : OpensBlock(html[n])})

Closes(html) == Cardinality({n \in 1..Len(html) : ClosesBlock(html[n])})

\* C15: the first message emits no closing fragment; every later message that
\* starts a new block or is a notice emits exactly one, before its opening
\* markup; a continuation emits none; at every point of the output the
\* closing fragments are no more than the blocks opened (headers and notice
\* templates), after each message there is exactly one block open, and after
\* the trailing closing fragment there is none.
C15_OpenCloseBalanced ==
    /\ \A n \in 0..Len(message_html) :
          Closes(SubSeq(message_html, 1, n)) <= Opens(SubSeq(message_html, 1, n))
    /\ \A j \in 1..Len(frags) :
          /\ IsNotice(Nth(j)) => OpensBlock(LastOf(frags[j]))
          /\ IF j = 1
             THEN Closes(frags[j]) = 0 /\ Opens(frags[j]) = 1
             ELSE IF OpensBlock(LastOf(frags[j]))
             THEN /\ Len(frags[j]) = 2
                  /\ frags[j][1] = end_message
                  /\ Closes(frags[j]) = 1 /\ Opens(frags[j]) = 1
             ELSE Closes(frags[j]) = 0 /\ Opens(frags[j]) = 0
    /\ (pc = "for" /\ i >= 1) => Opens(message_html) = Closes(message_html) + 1
    /\ ret.k = "returned" =>
          /\ LastOf(ret.html) = div_close
          /\ Opens(ret.html) = Closes(ret.html)

\* the transcript of a normal message and a notice after it was returned,
\* with two blocks opened and two closed
C15_Witness ==
    /\ ret.k = "returned"
    /\ Len(messages) = 2
    /\ ~IsNotice(Nth(1)) /\ IsNotice(Nth(2))
    /\ Opens(ret.html) = 2
    /\ Closes(ret.html) = 2

(* ------------------------------- C16 ----------------------------------- *)

\* the step adds 1 to the count of author a and changes nothing else of the entry
Incremented(a) == meta_data'[a] = [meta_data[a] EXCEPT !.count = @ + 1]

\* the step is build_meta_data for a message of author a
Aggregates(a) == pc = "build_meta_data" /\ pc' = "return" /\ Cur.author = a

\* C16: in every step of a run no entry of the aggregate map is removed; the
\* map changes only when a message is aggregated, and then only the entry of
\* that message's author: it is created with count 1 if the author had none,
\* and otherwise its count grows by exactly 1 while its other fields keep the
\* values recorded at creation.
C16_AggregateOnlyGrows ==
    [][/\ DOMAIN meta_data \subseteq DOMAIN meta_data'
       /\ \A a \in DOMAIN meta_data' :
             IF Aggregates(a)
             THEN IF a \in DOMAIN meta_data
                  THEN Incremented(a)
                  ELSE meta_data'[a].count = 1 /\ meta_data'[a] = new_entry(Cur)
             ELSE a \in DOMAIN meta_data /\ meta_data'[a] = meta_data[a]]_vars

\* an author's second message was aggregated; recorded on its own it would
\* have given other values than the entry created by the first one has kept
C16_Witness ==
    /\ pc = "return"
    /\ i = 2
    /\ Cur.author \in DOMAIN meta_data
    /\ meta_data[Cur.author].count = 2
    /\ meta_data[Cur.author].joined_at # new_entry(Cur).joined_at
    /\ meta_data[Cur.author].joined_at = new_entry(Nth(1)).joined_at

(* ------------------------------- C17 ----------------------------------- *)

\* the fragment rendered for a normal message shows the '(edited)' marker
HasEditMarker(f) ==
    /\ f.MESSAGE_CONTENT.k = "message_content"
    /\ f.MESSAGE_CONTENT.EDIT.k = "edited_span"

\* C17: a message of the normal pipeline that has an edit timestamp is
\* rendered with the '(edited)' marker carrying that timestamp, whether its
\* content is empty or not; one without an edit timestamp is rendered without
\* the marker.
C17_EditedAlwaysMarked ==
    (pc = "return" /\ ~IsNotice(Nth(i))) =>
       LET f == LastOf(mc.message_html)
       IN  IF Truthy(Nth(i).edited_timestamp)
           THEN /\ HasEditMarker(f)
                /\ f.MESSAGE_CONTENT.EDIT.timestamp.t = Nth(i).edited_timestamp.t
           ELSE ~HasEditMarker(f)

(* ------------------------------- C18 ----------------------------------- *)

\* the message M that the reference of message i resolved to, as the caller
\* supplied it or as the channel returned it
Quoted ==
    IF Nth(i).message_reference.message_id \in DOMAIN message_dict
    THEN Entry(message_dict[Nth(i).message_reference.message_id])
    ELSE mc.referenced

\* the text of a content value: a plain string, or the text inside rendered markup
TextOf(v) == IF v.k = "str" THEN v.s ELSE v.MESSAGE_CONTENT.v.s

\* C18: when the reference of a message is resolved to a message M, from the
\* list or by a fetch, the banner shows the command icon if M has an
\* interaction, otherwise the attachment icon if M has an embed or an
\* attachment, otherwise no icon; and if M's content is empty the quoted text
\* is 'Click to see command' when M has an interaction and 'Click to see
\* attachment' when it has none.
C18_BannerFromQuotedMessage ==
    ReferenceResolved =>
       /\ Cur.message_reference.USER_ID = Quoted.author
       /\ Cur.message_reference.ICON =
             (IF Quoted.interaction # None THEN "interaction_command_icon"
              ELSE IF Quoted.embeds > 0 \/ Quoted.attachments > 0 THEN "reference_attachment_icon"
              ELSE "")
       /\ ~Truthy(Quoted.content) =>
             TextOf(Cur.message_reference.CONTENT.v) =
                (IF Quoted.interaction # None THEN "Click to see command"
                 ELSE "Click to see attachment")

\* a reply to a command response of the list that has an attachment and no
\* text got the command icon and the command placeholder
C18_Witness ==
    /\ ReferenceResolved
    /\ Nth(i).message_reference.message_id \in DOMAIN message_dict
    /\ Quoted.interaction # None
    /\ Quoted.attachments > 0
    /\ ~Truthy(Quoted.content)
    /\ Cur.message_reference.ICON = "interaction_command_icon"
    /\ Cur.message_reference.CONTENT.v = Str("Click to see command")

(* ------------------------------- C19 ----------------------------------- *)

\* nothing but the type of its predecessor can force message i into a new
\* block: same author, no reference, no interaction, no webhook, not later
\* than four minutes after it
OnlyTypeCouldForce ==
    /\ i > 1
    /\ Nth(i).message_reference = None
    /\ Nth(i).interaction = None
    /\ Nth(i).webhook_id = None
    /\ Nth(i).author = Nth(i - 1).author
    /\ Nth(i).created_at.t <= Nth(i - 1).created_at.t + FourMinutes

\* C19 as stated: a message that follows a message rendered by the normal
\* pipeline, a reply or a command response included, is never forced into a
\* new block by the type of its predecessor alone; only a preceding pin,
\* thread-created, member-added or member-removed notice forces it.
C19_OnlyNoticesForceByType ==
    (TemplateBuilt /\ OnlyTypeCouldForce) => (StartsBlock <=> IsNotice(Nth(i - 1)))

\* C19 amended: the previous-type condition treats as normal only a message
\* whose type tag is DEFAULT: a message that follows a notice or a message of
\* any other type, a reply or a command response rendered by the normal
\* pipeline included, is forced into a new block by the type of its
\* predecessor alone.
C19_NonDefaultForcesByType ==
    (TemplateBuilt /\ OnlyTypeCouldForce) => (StartsBlock <=> Nth(i - 1).type # "DEFAULT")

\* a plain message right after a reply of the same author started a new block
C19_Witness ==
    /\ TemplateBuilt
    /\ OnlyTypeCouldForce
    /\ Nth(i - 1).type = "REPLY"
    /\ pipeline[i - 1] = <<"build_message">>
    /\ StartsBlock

(* ------------------------------- C20 ----------------------------------- *)

\* every message of author a in the sequence is a notice
OnlyInNotices(a) ==
    /\ \E j \in 1..Len(messages) : Nth(j).author = a
    /\ \A j \in 1..Len(messages) : Nth(j).author = a => IsNotice(Nth(j))

\* C20: no step of the construction of a pin, thread-created, member-added or
\* member-removed notice changes the aggregate map, so that no entry is
\* created for the notice's author and no count grows; and an author who
\* appears only in notices is absent from the returned map.
C20_NoticeLeavesAggregate ==
    /\ [][(Constructing /\ IsNotice(Nth(i))) => meta_data' = meta_data]_vars
    /\ [](ret.k = "returned" =>
             \A a \in Users \cup {Target} : OnlyInNotices(a) => a \notin DOMAIN ret.meta_data)

\* a transcript was returned whose second message is a notice by an author
\* with no other message: the map holds the first message's author alone
C20_Witness ==
    /\ ret.k = "returned"
    /\ Len(messages) = 2
    /\ ~IsNotice(Nth(1)) /\ IsNotice(Nth(2))
    /\ OnlyInNotices(Nth(2).author)
    /\ DOMAIN ret.meta_data = {Nth(1).author}

(* ------------------------------- C21 ----------------------------------- *)

\* every answer a collaborator has given the second call is the answer it gave
\* the first call at the same place
SameAnswers ==
    \A j \in 1..Len(messages) :
       /\ \A n \in 1..Len(member_fetches[j]) :
             /\ n <= Len(first.member_fetches[j])
             /\ member_fetches[j][n] = first.member_fetches[j][n]
       /\ \A n \in 1..Len(ref_fetches[j]) :
             /\ n <= Len(first.ref_fetches[j])
             /\ ref_fetches[j][n] = first.ref_fetches[j][n]

\* C21: when gather_messages has returned and is called again on the same
\* list, with the collaborators answering as they did, the second call does
\* not raise and returns the HTML and the aggregate map the first call
\* returned.
C21_SecondRunSameAsFirst ==
    (run = 2 /\ SameAnswers) =>
       /\ pc # "raised"
       /\ pc = "done" =>
             /\ ret.k = "returned"
             /\ ret.html = first.ret.html
             /\ ret.meta_data = first.ret.meta_data

(* ------------------------------- C22 ----------------------------------- *)

\* the text a banner quotes from message M as supplied: its content, or the
\* placeholder that stands for an empty one
QuotedText(M) ==
    IF Truthy(M.content) THEN M.content
    ELSE IF M.interaction # None THEN Str("Click to see command")
    ELSE Str("Click to see attachment")

\* the body that the construction of message j renders from the content supplied
BodyAsSupplied(j) ==
    LET f == LastOf(frags[j])
    IN  IF Truthy(Nth(j).content)
        THEN /\ f.MESSAGE_CONTENT.k = "message_content"
             /\ f.MESSAGE_CONTENT.MESSAGE_CONTENT = [k |-> "markdown", v |-> html_escape(Nth(j).content)]
        ELSE f.MESSAGE_CONTENT = Str("")

\* C22: the banner rendered for a reference that resolved to a message M names
\* M and its author and quotes M's content as the caller supplied it or as the
\* channel returned it, whether M was found in the message map, before or
\* after its own construction, or fetched; and every message of the normal
\* pipeline renders as its body the content it was supplied with, whether or
\* not a reference to it was resolved.
C22_BannerQuotesOriginalContent ==
    /\ ReferenceResolved =>
          /\ Cur.message_reference.MESSAGE_ID = Quoted.id
          /\ Cur.message_reference.USER_ID = Quoted.author
          /\ Cur.message_reference.CONTENT = [k |-> "reference", v |-> QuotedText(Quoted)]
    /\ \A j \in 1..Len(frags) : ~IsNotice(Nth(j)) => BodyAsSupplied(j)

(* ------------------------------- C23 ----------------------------------- *)

\* message i carries a reply-reference that was rendered: it resolved to a
\* message, or to the deleted-message banner; it was not cleared
ReferenceRendered == Nth(i).message_reference # None /\ ~ReferenceCleared

FollowupSymbol == Str("<div class='chatlog__followup-symbol'></div>")

\* C23: in the header of a new block the follow-up symbol is there if and only
\* if the reference slot holds a banner; the slot holds the reply banner (the
\* deleted-message banner included) when the message has a rendered reply
\* reference, with or without an interaction; it holds the interaction banner
\* when the message has an interaction and its reply reference is absent or
\* was cleared; and with neither the slot and the symbol are both empty.
C23_SymbolIffBanner ==
    (TemplateBuilt /\ StartsBlock) =>
       LET f == LastOf(mc.message_html)
       IN  /\ f.REFERENCE_SYMBOL \in {Str(""), FollowupSymbol}
           /\ f.REFERENCE_SYMBOL = FollowupSymbol <=> f.REFERENCE # Str("")
           /\ ReferenceRendered =>
                 /\ f.REFERENCE.k \in ReplyBanners
                 /\ f.REFERENCE = message_reference_unknown <=> FetchFailed(i, "NotFound")
           /\ (~ReferenceRendered /\ Nth(i).interaction # None) =>
                 /\ f.REFERENCE.k = "message_interaction"
                 /\ f.REFERENCE.USER_ID = Nth(i).interaction.user
           /\ (~ReferenceRendered /\ Nth(i).interaction = None) =>
                 /\ f.REFERENCE = Str("")
                 /\ f.REFERENCE_SYMBOL = Str("")

\* the header of a command response whose reply reference named a deleted
\* message shows the symbol and the deleted-message banner
C23_Witness ==
    /\ TemplateBuilt
    /\ StartsBlock
    /\ Nth(i).interaction # None
    /\ FetchFailed(i, "NotFound")
    /\ LastOf(mc.message_html).REFERENCE = message_reference_unknown
    /\ LastOf(mc.message_html).REFERENCE_SYMBOL = FollowupSymbol

====
